---- MODULE Spec2Model ----
(***************************************************************************)
(* Model of src/src/main.rs: the CustomRc reference-counted pointer, the   *)
(* StdRcWrapper adapter, the Game workload driver and the benchmark        *)
(* harness.                                                                *)
(*                                                                         *)
(* Storage blocks are identified by allocation: block b is the b-th block  *)
(* ever allocated, and the per-block fields are sequences indexed by b.    *)
(* A handle is a slot h of `handles`; handles[h] is its ptr field, or Null *)
(* when no handle lives in the slot.                                       *)
(***************************************************************************)
EXTENDS Integers, Sequences, FiniteSets, TLC

\* ---------------------------------------------------------------- bounds
MaxBlocks == 2      \* blocks the pointer-API specification may allocate
MaxClones == 3      \* clone operations in a behaviour of the pointer-API specification
MaxEntities == 2    \* num_entities is drawn from 0..MaxEntities
MaxFrames == 2      \* frames is drawn from 0..MaxFrames
MaxOps == 2         \* operations_per_frame is drawn from 0..MaxOps
\* the long benchmark: many frames over few entities and operations
MaxLongFrames == 25 \* frames is drawn from 0..MaxLongFrames
FewEntities == 1    \* num_entities is drawn from 0..FewEntities
FewOps == 1         \* operations_per_frame is drawn from 0..FewOps

\* ---------------------------------------------------------------- values
Null == 0
\* the driver holds at most num_entities stored handles and one temporary
MaxHandles == MaxEntities + 1
HandleIds == 1..MaxHandles

\* struct Entity { id, x, y }; setup builds every entity with x = y = 0.0
Entity(i) == [id |-> i, x |-> 0, y |-> 0]
Entities == {Entity(i) : i \in 0..(MaxEntities - 1)}
\* what is left of a block's value once the block has been deallocated
Dropped == [id |-> -1, x |-> -1, y |-> -1]

VARIABLES
    \* the heap: one entry per block ever allocated
    alloc,        \* set of blocks currently allocated
    ref_count,    \* CustomRcInner.ref_count (StdRc: the strong count)
    value,        \* CustomRcInner.value
    handles,      \* handle slot -> ptr (block) or Null
    \* history variables
    freed,        \* per block: how many times it was deallocated, value dropped
    clones,       \* per block: clone operations so far
    destroys,     \* per block: destroy operations so far
    ctor,         \* per block: the value given to Construct
    root,         \* per handle slot: the block its lineage was constructed on
    op,           \* the last operation: [kind, h, res]
    \* the workload driver and harness
    stage, pc, num_entities, frames, operations_per_frame,
    entities, id, frame, slot, idx, temp, cloned_rc,
    out, run_clones, run_drops, totals,
    run_start,    \* history: ref_count as it was when run was entered
    \* two threads cloning through one shared handle
    mode,         \* "interleaved" or "run_to_completion"
    tpc,          \* per thread: idle, write (count read, not yet written), hold
    told,         \* per thread: the old_count it read
    tnew,         \* per thread: the handle its clone returned
    ub,           \* an operation has touched deallocated storage
    lost          \* history: some write left the count below the live handles

heapvars == <<alloc, ref_count, value, handles, freed>>
histvars == <<clones, destroys, ctor, root>>
gamevars == <<stage, pc, num_entities, frames, operations_per_frame,
              entities, id, frame, slot, idx, temp, cloned_rc,
              out, run_clones, run_drops, totals, run_start>>
racevars == <<mode, tpc, told, tnew, ub, lost>>
vars == <<alloc, ref_count, value, handles, freed, clones, destroys, ctor,
          root, op, stage, pc, num_entities, frames, operations_per_frame,
          entities, id, frame, slot, idx, temp, cloned_rc,
          out, run_clones, run_drops, totals, run_start,
          mode, tpc, told, tnew, ub, lost>>

Blocks == 1..Len(ref_count)
Live == {h \in HandleIds : handles[h] # Null}
HandlesOf(b) == {h \in HandleIds : handles[h] = b}
HasFreeHandle == \E h \in HandleIds : handles[h] = Null
FreshHandle == CHOOSE h \in HandleIds :
                   handles[h] = Null /\ \A g \in 1..(h - 1) : handles[g] # Null

\* ------------------------------------------------------------ CustomRc
\* new with the count starting at 0 instead of 1
CustomRc_new_zero(h, v) ==
    LET b == Len(ref_count) + 1 IN
    /\ ref_count' = Append(ref_count, 0)
    /\ value' = Append(value, v)
    /\ alloc' = alloc \cup {b}
    /\ handles' = [handles EXCEPT ![h] = b]
    /\ freed' = Append(freed, 0)

\* CustomRc::new: Box::new(CustomRcInner { ref_count: 1, value }), and the
\* handle wraps the new block's address.
CustomRc_new(h, v) ==
    LET b == Len(ref_count) + 1 IN
    /\ ref_count' = Append(ref_count, 1)
    /\ value' = Append(value, v)
    /\ alloc' = alloc \cup {b}
    /\ handles' = [handles EXCEPT ![h] = b]
    /\ freed' = Append(freed, 0)

\* clone with the write-back of the incremented count lost
clone_noinc(self, hnew) ==
    /\ handles' = [handles EXCEPT ![hnew] = handles[self]]
    /\ UNCHANGED <<ref_count, value, alloc, freed>>

\* clone counting the new handle twice
clone_plus_two(self, hnew) ==
    LET b == handles[self]
        old_count == ref_count[b] IN
    /\ ref_count' = [ref_count EXCEPT ![b] = old_count + 2]
    /\ handles' = [handles EXCEPT ![hnew] = b]
    /\ UNCHANGED <<value, alloc, freed>>

\* CustomRc::clone, first half: let old_count = *inner.ref_count.get()
clone_read(self) == ref_count[handles[self]]

\* second half of clone writing back the count it read, unchanged
clone_write_stale(self, hnew, old_count) ==
    /\ ref_count' = [ref_count EXCEPT ![handles[self]] = old_count]
    /\ handles' = [handles EXCEPT ![hnew] = handles[self]]
    /\ UNCHANGED <<value, alloc, freed>>

\* CustomRc::clone, second half: *count = old_count + 1, and the returned
\* handle CustomRc { ptr: self.ptr }
clone_write(self, hnew, old_count) ==
    LET b == handles[self] IN
    /\ ref_count' = [ref_count EXCEPT ![b] = old_count + 1]
    /\ handles' = [handles EXCEPT ![hnew] = b]
    /\ UNCHANGED <<value, alloc, freed>>

\* CustomRc::clone: read old_count, write old_count + 1 into the same block,
\* return a handle with the same ptr.
clone(self, hnew) ==
    LET b == handles[self]
        old_count == ref_count[b] IN
    /\ ref_count' = [ref_count EXCEPT ![b] = old_count + 1]
    /\ handles' = [handles EXCEPT ![hnew] = b]
    /\ UNCHANGED <<value, alloc, freed>>

\* deref that also counts the borrow as a reference
deref_counting(self, res) ==
    LET b == handles[self] IN
    /\ res = value[b]
    /\ ref_count' = [ref_count EXCEPT ![b] = @ + 1]
    /\ UNCHANGED <<alloc, value, handles, freed>>

\* CustomRc::deref: &self.ptr.as_ref().value, a reference to the value field
\* of the addressed block; nothing is written. Reading a deallocated block is
\* undefined: any value may be seen.
as_ref_value(self, res) ==
    LET b == handles[self] IN
    IF b \in alloc THEN res = value[b] ELSE res \in Entities \cup {Dropped}

deref(self, res) ==
    /\ as_ref_value(self, res)
    /\ UNCHANGED <<alloc, ref_count, value, handles, freed>>

\* drop_rc that decrements but never deallocates
drop_rc_leak(self) ==
    /\ ref_count' = [ref_count EXCEPT ![handles[self]] = @ - 1]
    /\ UNCHANGED <<alloc, value, freed>>

\* drop_rc that deallocates without testing the count
drop_rc_nocheck(self) ==
    LET b == handles[self] IN
    /\ ref_count' = [ref_count EXCEPT ![b] = @ - 1]
    /\ alloc' = alloc \ {b}
    /\ value' = [value EXCEPT ![b] = Dropped]
    /\ freed' = [freed EXCEPT ![b] = @ + 1]

\* drop_rc that tests the count before decrementing it
drop_rc_early(self) ==
    LET b == handles[self]
        count == ref_count[b] - 1 IN
    /\ ref_count' = [ref_count EXCEPT ![b] = count]
    /\ IF count <= 1
         THEN /\ alloc' = alloc \ {b}
              /\ value' = [value EXCEPT ![b] = Dropped]
              /\ freed' = [freed EXCEPT ![b] = @ + 1]
         ELSE UNCHANGED <<alloc, value, freed>>

\* CustomRc::drop_rc: decrement, and deallocate (Box::from_raw, dropping the
\* value) when the count reaches zero.
drop_rc(self) ==
    LET b == handles[self]
        count == ref_count[b] - 1 IN
    /\ ref_count' = [ref_count EXCEPT ![b] = count]
    /\ IF count = 0
         THEN /\ alloc' = alloc \ {b}
              /\ value' = [value EXCEPT ![b] = Dropped]
              /\ freed' = [freed EXCEPT ![b] = @ + 1]
         ELSE UNCHANGED <<alloc, value, freed>>

\* Drop for CustomRc: drop_rc, after which the handle no longer exists.
drop(self) ==
    /\ drop_rc(self)
    /\ handles' = [handles EXCEPT ![self] = Null]

\* ---------------------------------------------- history of the operations
NoteNew(h, v) ==
    /\ clones' = Append(clones, 0)
    /\ destroys' = Append(destroys, 0)
    /\ ctor' = Append(ctor, v)
    /\ root' = [root EXCEPT ![h] = Len(ref_count) + 1]

NoteClone(self, hnew) ==
    /\ clones' = [clones EXCEPT ![handles[self]] = @ + 1]
    /\ root' = [root EXCEPT ![hnew] = root[self]]
    /\ UNCHANGED <<destroys, ctor>>

NoteDrop(self) ==
    /\ destroys' = [destroys EXCEPT ![handles[self]] = @ + 1]
    /\ root' = [root EXCEPT ![self] = Null]
    /\ UNCHANGED <<clones, ctor>>

RECURSIVE SumSeq(_)
SumSeq(q) == IF q = <<>> THEN 0 ELSE Head(q) + SumSeq(Tail(q))

NoOp == [kind |-> "none", h |-> Null, res |-> Dropped]

\* ------------------------------------------- the pointer API, any order
\* the values handed to Construct: two entities that differ
ApiValues == {Entity(0), Entity(1)}

Construct ==
    \E v \in ApiValues :
        /\ Len(ref_count) < MaxBlocks
        /\ HasFreeHandle
        /\ CustomRc_new(FreshHandle, v)
        /\ NoteNew(FreshHandle, v)
        /\ op' = [kind |-> "new", h |-> FreshHandle, res |-> v]
        /\ UNCHANGED <<gamevars, racevars>>

Clone ==
    \E h \in Live :
        /\ HasFreeHandle
        /\ SumSeq(clones) < MaxClones
        /\ clone(h, FreshHandle)
        /\ NoteClone(h, FreshHandle)
        /\ op' = [kind |-> "clone", h |-> h, res |-> Dropped]
        /\ UNCHANGED <<gamevars, racevars>>

Dereference ==
    \E h \in Live : \E res \in Entities \cup {Dropped} :
        /\ deref(h, res)
        /\ op' = [kind |-> "deref", h |-> h, res |-> res]
        /\ UNCHANGED <<histvars, gamevars, racevars>>

Destroy ==
    \E h \in Live :
        /\ drop(h)
        /\ NoteDrop(h)
        /\ op' = [kind |-> "drop", h |-> h, res |-> Dropped]
        /\ UNCHANGED <<gamevars, racevars>>

GameIdle ==
    /\ stage = "api" /\ pc = "api"
    /\ num_entities = 0 /\ frames = 0 /\ operations_per_frame = 0
    /\ entities = <<>> /\ id = 0 /\ frame = 0 /\ slot = 0 /\ idx = 0
    /\ temp = Null /\ cloned_rc = Null
    /\ out = <<>> /\ run_clones = 0 /\ run_drops = 0 /\ totals = <<>>
    /\ run_start = <<>>

\* the two threads of the race scenario
Threads == {1, 2}
NoThreads ==
    /\ tpc = [t \in Threads |-> "idle"]
    /\ told = [t \in Threads |-> 0]
    /\ tnew = [t \in Threads |-> Null]
    /\ ub = FALSE /\ lost = FALSE
RaceIdle == mode = "none" /\ NoThreads

EmptyHeap ==
    /\ alloc = {} /\ ref_count = <<>> /\ value = <<>>
    /\ handles = [h \in HandleIds |-> Null]
    /\ freed = <<>> /\ clones = <<>> /\ destroys = <<>> /\ ctor = <<>>
    /\ root = [h \in HandleIds |-> Null]
    /\ op = NoOp

Init == EmptyHeap /\ GameIdle /\ RaceIdle

Next == Construct \/ Clone \/ Dereference \/ Destroy

Spec == Init /\ [][Next]_vars

\* ------------------------------- two threads cloning one shared handle
\* The handle both threads clone through: the one Construct returned.
Orig == 1
InWrite == {t \in Threads : tpc[t] = "write"}
Freed(h) == handles[h] \notin alloc

RaceConstruct ==
    /\ Len(ref_count) = 0
    /\ CustomRc_new(Orig, Entity(0))
    /\ NoteNew(Orig, Entity(0))
    /\ op' = [kind |-> "new", h |-> Orig, res |-> Entity(0)]
    /\ UNCHANGED <<gamevars, racevars>>

\* clone, up to the read of the count. When operations run to completion a
\* clone starts only if no other clone is between its read and its write.
RaceCloneRead(t) ==
    /\ Len(ref_count) = 1 /\ ~ub
    /\ tpc[t] = "idle"
    /\ SumSeq(clones) + Cardinality(InWrite) < MaxClones
    /\ mode = "run_to_completion" => InWrite = {}
    /\ IF Freed(Orig)
         THEN ub' = TRUE /\ UNCHANGED <<tpc, told>>
         ELSE /\ told' = [told EXCEPT ![t] = clone_read(Orig)]
              /\ tpc' = [tpc EXCEPT ![t] = "write"]
              /\ ub' = ub
    /\ UNCHANGED <<heapvars, histvars, op, gamevars, mode, tnew, lost>>

\* clone, from the write of old_count + 1 to the return of the new handle
RaceCloneWrite(t) ==
    /\ tpc[t] = "write" /\ ~ub
    /\ IF Freed(Orig)
         THEN /\ ub' = TRUE
              /\ UNCHANGED <<heapvars, histvars, op, tpc, tnew, lost>>
         ELSE /\ clone_write(Orig, FreshHandle, told[t])
              /\ NoteClone(Orig, FreshHandle)
              /\ op' = [kind |-> "clone", h |-> Orig, res |-> Dropped]
              /\ tnew' = [tnew EXCEPT ![t] = FreshHandle]
              /\ tpc' = [tpc EXCEPT ![t] = "hold"]
              /\ lost' = (lost \/ ref_count'[handles[Orig]]
                                     < Cardinality(HandlesOf(handles[Orig])) + 1)
              /\ ub' = ub
    /\ UNCHANGED <<gamevars, mode, told>>

\* the thread lets its clone go out of scope; when operations run to
\* completion this does not begin inside another thread's clone
RaceDrop(t) ==
    /\ tpc[t] = "hold" /\ ~ub
    /\ mode = "run_to_completion" => InWrite = {}
    /\ IF Freed(tnew[t])
         THEN /\ ub' = TRUE
              /\ UNCHANGED <<heapvars, histvars, op, tpc, tnew>>
         ELSE /\ drop(tnew[t])
              /\ NoteDrop(tnew[t])
              /\ op' = [kind |-> "drop", h |-> tnew[t], res |-> Dropped]
              /\ tnew' = [tnew EXCEPT ![t] = Null]
              /\ tpc' = [tpc EXCEPT ![t] = "idle"]
              /\ ub' = ub
    /\ UNCHANGED <<gamevars, mode, told, lost>>

RaceInit ==
    /\ EmptyHeap /\ GameIdle /\ NoThreads
    /\ mode \in {"interleaved", "run_to_completion"}

RaceNext ==
    \/ RaceConstruct
    \/ \E t \in Threads : RaceCloneRead(t)
    \/ \E t \in Threads : RaceCloneWrite(t)
    \/ \E t \in Threads : RaceDrop(t)

RaceSpec == RaceInit /\ [][RaceNext]_vars

\* -------------------------------------------------------- StdRcWrapper
\* StdRcWrapper::new: StdRc::new(value), a fresh block with strong count 1.
StdRcWrapper_new(h, v) ==
    LET b == Len(ref_count) + 1 IN
    /\ ref_count' = Append(ref_count, 1)
    /\ value' = Append(value, v)
    /\ alloc' = alloc \cup {b}
    /\ handles' = [handles EXCEPT ![h] = b]
    /\ freed' = Append(freed, 0)

\* StdRcWrapper::clone: StdRc::clone, strong count + 1, same block.
StdRcWrapper_clone(self, hnew) ==
    LET b == handles[self] IN
    /\ ref_count' = [ref_count EXCEPT ![b] = @ + 1]
    /\ handles' = [handles EXCEPT ![hnew] = b]
    /\ UNCHANGED <<value, alloc, freed>>

\* StdRcWrapper::deref: &self.0, the value of the wrapped StdRc.
StdRcWrapper_deref(self, res) ==
    /\ res = value[handles[self]]
    /\ UNCHANGED <<alloc, ref_count, value, handles, freed>>

\* The wrapper has no Drop of its own: dropping it drops the StdRc field,
\* strong count - 1, and the block is released at zero.
StdRcWrapper_drop(self) ==
    LET b == handles[self]
        strong == ref_count[b] - 1 IN
    /\ ref_count' = [ref_count EXCEPT ![b] = strong]
    /\ handles' = [handles EXCEPT ![self] = Null]
    /\ IF strong = 0
         THEN /\ alloc' = alloc \ {b}
              /\ value' = [value EXCEPT ![b] = Dropped]
              /\ freed' = [freed EXCEPT ![b] = @ + 1]
         ELSE UNCHANGED <<alloc, value, freed>>

\* ------------------------------------------------ RcLike, by RcType
\* main drives the warm-up and the first benchmark over StdRcWrapper and
\* the second benchmark over CustomRc.
RcType == IF stage = "CustomRc" THEN "CustomRc" ELSE "StdRcWrapper"

RcNew(h, v) ==
    /\ IF RcType = "CustomRc" THEN CustomRc_new(h, v) ELSE StdRcWrapper_new(h, v)
    /\ NoteNew(h, v)
    /\ op' = [kind |-> "new", h |-> h, res |-> v]

RcClone(self, hnew) ==
    /\ IF RcType = "CustomRc" THEN clone(self, hnew) ELSE StdRcWrapper_clone(self, hnew)
    /\ NoteClone(self, hnew)
    /\ op' = [kind |-> "clone", h |-> self, res |-> Dropped]

RcDeref(self) ==
    \E res \in Entities \cup {Dropped} :
        /\ IF RcType = "CustomRc" THEN deref(self, res) ELSE StdRcWrapper_deref(self, res)
        /\ op' = [kind |-> "deref", h |-> self, res |-> res]

RcDrop(self) ==
    /\ IF RcType = "CustomRc" THEN drop(self) ELSE StdRcWrapper_drop(self)
    /\ NoteDrop(self)
    /\ op' = [kind |-> "drop", h |-> self, res |-> Dropped]

\* ------------------------------------------------------------ Game
params == <<num_entities, frames, operations_per_frame>>
loopvars == <<id, frame, slot, idx>>
counters == <<run_clones, run_drops, totals>>

\* the println! that opens a pass, then Game::new
Begin ==
    /\ pc = "begin"
    /\ out' = Append(out, IF stage = "warmup" THEN <<"Warming up">>
                                               ELSE <<"Benchmarking", stage>>)
    /\ entities' = <<>>
    /\ id' = 0 /\ frame' = 0 /\ slot' = 0 /\ idx' = 0
    /\ run_clones' = 0 /\ run_drops' = 0
    /\ run_start' = <<>>
    /\ pc' = "setup"
    /\ UNCHANGED <<heapvars, histvars, op, stage, params, racevars, temp, cloned_rc, totals>>

\* Game::setup, one statement in four steps:
\*   self.entities.push(RcType::clone(&RcType::new(entity)));
SetupNew ==
    /\ pc = "setup" /\ id < num_entities
    /\ RcNew(FreshHandle, Entity(id))
    /\ temp' = FreshHandle
    /\ pc' = "setup_clone"
    /\ UNCHANGED <<stage, params, racevars, run_start, entities, loopvars, cloned_rc, out, counters>>

SetupClone ==
    /\ pc = "setup_clone"
    /\ RcClone(temp, FreshHandle)
    /\ cloned_rc' = FreshHandle
    /\ pc' = "setup_push"
    /\ UNCHANGED <<stage, params, racevars, run_start, entities, loopvars, temp, out, counters>>

SetupPush ==
    /\ pc = "setup_push"
    /\ entities' = Append(entities, cloned_rc)
    /\ cloned_rc' = Null
    /\ pc' = "setup_drop"
    /\ UNCHANGED <<heapvars, histvars, op, stage, params, racevars, run_start, loopvars, temp, out, counters>>

\* setup step that forgets the temporary instead of dropping it
SetupDropTemp_forget ==
    /\ pc = "setup_drop"
    /\ handles' = [handles EXCEPT ![temp] = Null]
    /\ root' = [root EXCEPT ![temp] = Null]
    /\ op' = NoOp
    /\ temp' = Null
    /\ id' = id + 1
    /\ pc' = "setup"
    /\ UNCHANGED <<alloc, ref_count, value, freed, clones, destroys, ctor,
                   stage, params, racevars, run_start, entities, frame, slot, idx, cloned_rc, out, counters>>

\* the temporary RcType::new(entity) is dropped at the end of the statement
SetupDropTemp ==
    /\ pc = "setup_drop"
    /\ RcDrop(temp)
    /\ temp' = Null
    /\ id' = id + 1
    /\ pc' = "setup"
    /\ UNCHANGED <<stage, params, racevars, run_start, entities, frame, slot, idx, cloned_rc, out, counters>>

SetupDone ==
    /\ pc = "setup" /\ id >= num_entities
    /\ run_start' = ref_count
    /\ pc' = "run"
    /\ UNCHANGED <<heapvars, histvars, op, stage, params, racevars, entities, loopvars,
                   temp, cloned_rc, out, counters>>

\* visit that always clones the first stored handle
RunClone_first ==
    /\ pc = "run" /\ frame < frames /\ slot < operations_per_frame
    /\ idx < Len(entities)
    /\ RcClone(entities[1], FreshHandle)
    /\ cloned_rc' = FreshHandle
    /\ run_clones' = run_clones + 1
    /\ pc' = "run_deref"
    /\ UNCHANGED <<stage, params, racevars, run_start, entities, loopvars, temp, out, run_drops, totals>>

\* Game::run: for frame, for _ in 0..operations_per_frame, for entity_rc
RunClone ==
    /\ pc = "run" /\ frame < frames /\ slot < operations_per_frame
    /\ idx < Len(entities)
    /\ RcClone(entities[idx + 1], FreshHandle)
    /\ cloned_rc' = FreshHandle
    /\ run_clones' = run_clones + 1
    /\ pc' = "run_deref"
    /\ UNCHANGED <<stage, params, racevars, run_start, entities, loopvars, temp, out, run_drops, totals>>

\* let entity = cloned_rc.deref(); black_box(entity.x + entity.y)
RunDeref ==
    /\ pc = "run_deref"
    /\ RcDeref(cloned_rc)
    /\ pc' = "run_drop"
    /\ UNCHANGED <<histvars, stage, params, racevars, run_start, entities, loopvars, temp,
                   cloned_rc, out, counters>>

\* end of a visit that does not advance to the next stored handle
RunDrop_stuck ==
    /\ pc = "run_drop"
    /\ RcDrop(cloned_rc)
    /\ cloned_rc' = Null
    /\ run_drops' = run_drops + 1
    /\ idx' = idx
    /\ pc' = "run"
    /\ UNCHANGED <<stage, params, racevars, run_start, entities, id, frame, slot, temp, out,
                   run_clones, totals>>

\* end of a visit that forgets the clone instead of dropping it
RunDrop_forget ==
    /\ pc = "run_drop"
    /\ handles' = [handles EXCEPT ![cloned_rc] = Null]
    /\ root' = [root EXCEPT ![cloned_rc] = Null]
    /\ op' = NoOp
    /\ cloned_rc' = Null
    /\ run_drops' = run_drops + 1
    /\ idx' = idx + 1
    /\ pc' = "run"
    /\ UNCHANGED <<alloc, ref_count, value, freed, clones, destroys, ctor,
                   stage, params, racevars, run_start, entities, id, frame, slot,
                   temp, out, run_clones, totals>>

\* cloned_rc goes out of scope at the end of the loop body
RunDrop ==
    /\ pc = "run_drop"
    /\ RcDrop(cloned_rc)
    /\ cloned_rc' = Null
    /\ run_drops' = run_drops + 1
    /\ idx' = idx + 1
    /\ pc' = "run"
    /\ UNCHANGED <<stage, params, racevars, run_start, entities, id, frame, slot, temp, out,
                   run_clones, totals>>

RunNextSlot ==
    /\ pc = "run" /\ frame < frames /\ slot < operations_per_frame
    /\ idx >= Len(entities)
    /\ slot' = slot + 1
    /\ idx' = 0
    /\ UNCHANGED <<heapvars, histvars, op, stage, pc, params, racevars, run_start, entities, id, frame,
                   temp, cloned_rc, out, counters>>

\* max that returns the smaller argument
Max_min(a, b) == IF a >= b THEN b ELSE a

Max(a, b) == IF a >= b THEN a ELSE b
\* progress check that looks at the number of frames completed
ProgressDue_after(f) == (f + 1) % Max(frames \div 10, 1) = 0
\* frame % (self.frames / 10).max(1) == 0
ProgressDue(f) == f % Max(frames \div 10, 1) = 0

\* end of a frame that advances the frame counter by two
RunEndFrame_skip ==
    /\ pc = "run" /\ frame < frames /\ slot >= operations_per_frame
    /\ out' = IF ProgressDue(frame)
                THEN Append(out, <<"Completed frame", frame, frames>>)
                ELSE out
    /\ frame' = frame + 2
    /\ slot' = 0
    /\ UNCHANGED <<heapvars, histvars, op, stage, pc, params, racevars, run_start, entities, id, idx,
                   temp, cloned_rc, counters>>

RunEndFrame ==
    /\ pc = "run" /\ frame < frames /\ slot >= operations_per_frame
    /\ out' = IF ProgressDue(frame)
                THEN Append(out, <<"Completed frame", frame, frames>>)
                ELSE out
    /\ frame' = frame + 1
    /\ slot' = 0
    /\ UNCHANGED <<heapvars, histvars, op, stage, pc, params, racevars, run_start, entities, id, idx,
                   temp, cloned_rc, counters>>

\* run returns. In benchmark the report is printed before game goes out of
\* scope; in main the warm-up block ends (dropping game) before its println.
RunDone ==
    /\ pc = "run" /\ frame >= frames
    /\ totals' = Append(totals, <<RcType, run_clones, run_drops>>)
    /\ pc' = IF stage = "warmup" THEN "teardown" ELSE "report"
    /\ UNCHANGED <<heapvars, histvars, op, stage, params, racevars, run_start, entities, loopvars,
                   temp, cloned_rc, out, run_clones, run_drops>>

\* main with the two benchmarks in the other order
NextStage_swapped == IF stage = "warmup" THEN "CustomRc"
                     ELSE IF stage = "CustomRc" THEN "StdRc" ELSE "done"

NextStage == IF stage = "warmup" THEN "StdRc"
             ELSE IF stage = "StdRc" THEN "CustomRc" ELSE "done"

Report ==
    /\ pc = "report"
    /\ out' = Append(out, IF stage = "warmup"
                            THEN <<"Warm-up completed">>
                            ELSE <<"completed", stage, frames, operations_per_frame>>)
    /\ IF stage = "warmup"
         THEN stage' = NextStage /\ pc' = "begin"
         ELSE stage' = stage /\ pc' = "teardown"
    /\ UNCHANGED <<heapvars, histvars, op, params, racevars, run_start, entities, loopvars, temp,
                   cloned_rc, counters>>

\* teardown that releases the collection without dropping its elements
TeardownDrop_forget ==
    /\ pc = "teardown" /\ entities # <<>>
    /\ handles' = [handles EXCEPT ![Head(entities)] = Null]
    /\ root' = [root EXCEPT ![Head(entities)] = Null]
    /\ op' = NoOp
    /\ entities' = Tail(entities)
    /\ UNCHANGED <<alloc, ref_count, value, freed, clones, destroys, ctor,
                   stage, pc, params, racevars, run_start, loopvars, temp, cloned_rc, out, counters>>

\* game goes out of scope: Vec<RcType> drops its elements in order
TeardownDrop ==
    /\ pc = "teardown" /\ entities # <<>>
    /\ RcDrop(Head(entities))
    /\ entities' = Tail(entities)
    /\ UNCHANGED <<stage, pc, params, racevars, run_start, loopvars, temp, cloned_rc, out, counters>>

TeardownDone ==
    /\ pc = "teardown" /\ entities = <<>>
    /\ IF stage = "warmup"
         THEN stage' = stage /\ pc' = "report"
         ELSE /\ stage' = NextStage
              /\ pc' = IF NextStage = "done" THEN "end" ELSE "begin"
    /\ UNCHANGED <<heapvars, histvars, op, params, racevars, run_start, entities, loopvars, temp,
                   cloned_rc, out, counters>>

GameInit ==
    /\ EmptyHeap
    /\ stage = "warmup" /\ pc = "begin"
    /\ num_entities \in 0..MaxEntities
    /\ frames \in 0..MaxFrames
    /\ operations_per_frame \in 0..MaxOps
    /\ entities = <<>> /\ id = 0 /\ frame = 0 /\ slot = 0 /\ idx = 0
    /\ temp = Null /\ cloned_rc = Null
    /\ out = <<>> /\ run_clones = 0 /\ run_drops = 0 /\ totals = <<>>
    /\ run_start = <<>>
    /\ RaceIdle

GameNext ==
    \/ Begin
    \/ SetupNew \/ SetupClone \/ SetupPush \/ SetupDropTemp \/ SetupDone
    \/ RunClone \/ RunDeref \/ RunDrop \/ RunNextSlot \/ RunEndFrame \/ RunDone
    \/ Report
    \/ TeardownDrop \/ TeardownDone

GameSpec == GameInit /\ [][GameNext]_vars

\* one call benchmark::<CustomRc>(name, frames, operations_per_frame,
\* num_entities) with frame counts on both sides of 10
LongRunInit ==
    /\ EmptyHeap
    /\ stage = "CustomRc" /\ pc = "begin"
    /\ num_entities \in 0..FewEntities
    /\ frames \in 0..MaxLongFrames
    /\ operations_per_frame \in 0..FewOps
    /\ entities = <<>> /\ id = 0 /\ frame = 0 /\ slot = 0 /\ idx = 0
    /\ temp = Null /\ cloned_rc = Null
    /\ out = <<>> /\ run_clones = 0 /\ run_drops = 0 /\ totals = <<>>
    /\ run_start = <<>>
    /\ RaceIdle

LongRunSpec == LongRunInit /\ [][GameNext]_vars
\* one thread runs main to completion: every enabled step is eventually taken
FairGameSpec == GameSpec /\ WF_vars(GameNext)

\* ================================================================ claims
LiveCount(b) == Cardinality(HandlesOf(b))

\* C1 Count conservation: for every block, the number of live handles
\* addressing it is 1 + clones - destroys; while the block is allocated or a
\* handle to it exists its ref_count equals that number, and the count is
\* never 0 while a handle exists.
CountConservation ==
    \A b \in Blocks :
        /\ LiveCount(b) = 1 + clones[b] - destroys[b]
        /\ (b \in alloc \/ LiveCount(b) >= 1) => ref_count[b] = LiveCount(b)
        /\ LiveCount(b) >= 1 => ref_count[b] >= 1

CountConservationWitness ==
    \E b \in Blocks :
        clones[b] = 2 /\ destroys[b] = 2 /\ LiveCount(b) = 1 /\ ref_count[b] = 1

\* C2 Single deallocation: a block is deallocated at most once; a step
\* deallocates block b exactly when it is the Destroy of a handle of b that
\* takes b's count from 1 to 0, and that step is the one that removes b from
\* the allocated blocks.
SingleDeallocation ==
    [][\A b \in Blocks :
          /\ freed'[b] <= 1
          /\ (freed'[b] # freed[b])
                <=> (/\ op'.kind = "drop"
                     /\ handles[op'.h] = b
                     /\ ref_count[b] = 1
                     /\ ref_count'[b] = 0)
          /\ (freed'[b] # freed[b]) <=> (b \in alloc /\ b \notin alloc')
          /\ (op'.kind = "drop" /\ handles[op'.h] = b /\ ref_count'[b] > 0)
                => (b \in alloc' /\ freed'[b] = 0)
      ]_vars

SingleDeallocationWitness ==
    \E b \in Blocks :
        freed[b] = 1 /\ b \notin alloc /\ destroys[b] = 3 /\ op.kind = "drop"

\* C3 No use-after-free: every live handle addresses a block that is
\* allocated and has never been deallocated.
NoUseAfterFree ==
    \A h \in Live : handles[h] \in alloc /\ freed[handles[h]] = 0

NoUseAfterFreeWitness ==
    \E h \in Live :
        /\ destroys[handles[h]] = 2
        /\ LiveCount(handles[h]) = 1
        /\ op.kind = "deref" /\ op.h = h

\* C5 Clone effect and frame: a Clone of live handle h of block b puts a new
\* handle addressing b into a slot that held none, raises b's count by
\* exactly 1, and changes no value, no other count, no other handle (h stays
\* live on b) and no allocation.
CloneEffect ==
    [][op'.kind = "clone" =>
          LET h == op'.h
              b == handles[h] IN
          /\ h \in Live /\ b \in alloc
          /\ \E hnew \in HandleIds :
                 /\ handles[hnew] = Null
                 /\ handles' = [handles EXCEPT ![hnew] = b]
          /\ ref_count' = [ref_count EXCEPT ![b] = ref_count[b] + 1]
          /\ value' = value
          /\ alloc' = alloc /\ freed' = freed
      ]_vars

CloneEffectWitness ==
    /\ op.kind = "clone"
    /\ Len(ref_count) = 2
    /\ ref_count[handles[op.h]] = 2
    /\ \E g \in Live : handles[g] # handles[op.h]

\* C6 Clone transparency: any two live handles of one lineage (an original
\* and its direct or transitive clones) dereference to the same content, the
\* value given to Construct, also after sibling handles were destroyed.
CloneTransparency ==
    \A g \in Live : \A h \in Live :
        root[g] = root[h] =>
            \A rg \in Entities \cup {Dropped} : \A rh \in Entities \cup {Dropped} :
                (as_ref_value(g, rg) /\ as_ref_value(h, rh)) => (rg = rh /\ rg = ctor[root[g]])

CloneTransparencyWitness ==
    \E g \in Live : \E h \in Live :
        /\ g # h /\ root[g] = root[h]
        /\ destroys[root[g]] >= 1
        /\ op.kind = "deref" /\ op.h = h /\ op.res = ctor[root[g]]

\* C9 Construct: a Construct step allocates the next block, which no handle
\* addressed and which was not allocated, stores the given value in it with
\* count 1, hands it to one handle slot that held none, and changes nothing
\* of the existing blocks and handles.
ConstructEffect ==
    [][op'.kind = "new" =>
          LET h == op'.h
              b == Len(ref_count) + 1 IN
          /\ handles[h] = Null
          /\ b \notin alloc
          /\ \A g \in HandleIds : handles[g] # b
          /\ ref_count' = Append(ref_count, 1)
          /\ value' = Append(value, op'.res)
          /\ alloc' = alloc \cup {b}
          /\ handles' = [handles EXCEPT ![h] = b]
          /\ {g \in HandleIds : handles'[g] = b} = {h}
      ]_vars

ConstructEffectWitness ==
    /\ op.kind = "new"
    /\ Len(ref_count) = 2
    /\ ref_count[1] = 2 /\ ref_count[2] = 1
    /\ value[1] # value[2]

\* C10 Dereference is read-only: a Dereference step changes no count, no
\* value, no handle and no allocation, and yields the value field of the
\* block its handle addresses.
DerefReadOnly ==
    [][op'.kind = "deref" =>
          /\ op'.h \in Live
          /\ handles[op'.h] \in alloc
          /\ op'.res = value[handles[op'.h]]
          /\ ref_count' = ref_count /\ value' = value
          /\ handles' = handles /\ alloc' = alloc /\ freed' = freed
      ]_vars

DerefReadOnlyWitness ==
    /\ op.kind = "deref"
    /\ Len(ref_count) = 2
    /\ ref_count[handles[op.h]] = 2
    /\ op.res = value[handles[op.h]]

\* the block a stored handle addresses
BlockOf(i) == handles[entities[i]]
\* setup has returned and no clone of run is in flight
SetupReturned == pc = "run"
Total == num_entities * frames * operations_per_frame

\* C4 Setup(n) postcondition, as amended: after setup(n) the collection holds
\* exactly n handles, the i-th designates the entity with identifier i, the
\* handles designate distinct allocated blocks, no temporary is left, and
\* each block's count is exactly 1.
SetupPost ==
    SetupReturned =>
        /\ Len(entities) = num_entities
        /\ temp = Null /\ cloned_rc = Null
        /\ Live = {entities[i] : i \in 1..Len(entities)}
        /\ \A i \in 1..Len(entities) :
               /\ BlockOf(i) \in alloc
               /\ value[BlockOf(i)] = Entity(i - 1)
               /\ ref_count[BlockOf(i)] = 1
               /\ \A j \in 1..Len(entities) : BlockOf(i) = BlockOf(j) => i = j

\* C4 as stated: each stored handle's block count is at least 2 after setup.
SetupPostOriginal ==
    SetupReturned =>
        /\ Len(entities) = num_entities
        /\ \A i \in 1..Len(entities) :
               /\ value[BlockOf(i)] = Entity(i - 1)
               /\ ref_count[BlockOf(i)] >= 2
               /\ \A j \in 1..Len(entities) : BlockOf(i) = BlockOf(j) => i = j

SetupPostWitness ==
    /\ SetupReturned /\ stage = "CustomRc"
    /\ frame = 0 /\ slot = 0 /\ idx = 0
    /\ num_entities = MaxEntities /\ Len(entities) = MaxEntities
    /\ destroys[BlockOf(1)] = 1 /\ clones[BlockOf(1)] = 1

\* C7 Workload determinism: every completed run, over StdRcWrapper or over
\* CustomRc, has performed exactly N*F*O clones and N*F*O destroys of those
\* clones; while a run is under way each clone is destroyed before the next.
WorkloadDeterminism ==
    /\ \A i \in 1..Len(totals) : totals[i][2] = Total /\ totals[i][3] = Total
    /\ pc \in {"report", "teardown", "end"} =>
           (Len(totals) >= 1 /\ run_clones = Total /\ run_drops = Total)
    /\ run_drops <= run_clones /\ run_clones <= run_drops + 1
    /\ pc = "end" =>
           /\ Len(totals) = 3
           /\ totals[2] = <<"StdRcWrapper", Total, Total>>
           /\ totals[3] = <<"CustomRc", Total, Total>>

WorkloadDeterminismWitness ==
    /\ pc = "end"
    /\ num_entities = MaxEntities /\ frames = MaxFrames
    /\ operations_per_frame = MaxOps
    /\ Total >= 8
    /\ totals[2] = <<"StdRcWrapper", Total, Total>>
    /\ totals[3] = <<"CustomRc", Total, Total>>

\* C8 Final teardown: each teardown step destroys the first remaining handle
\* of the collection, taking its block's count from 1 to 0 and deallocating
\* the block; every teardown ends with no block allocated and no handle live;
\* and eventually main has ended with every block that was ever allocated
\* deallocated exactly once.
FinalTeardown ==
    /\ [][(pc = "teardown" /\ entities # <<>> /\ entities' # entities) =>
             LET h == Head(entities)
                 b == handles[h] IN
             /\ entities' = Tail(entities)
             /\ ref_count[b] = 1 /\ ref_count'[b] = 0
             /\ b \in alloc /\ b \notin alloc'
             /\ freed[b] = 0 /\ freed'[b] = 1
             /\ handles'[h] = Null
         ]_vars
    /\ (pc = "teardown") ~> (pc # "teardown" /\ alloc = {} /\ Live = {})
    /\ <>[](/\ pc = "end"
            /\ alloc = {} /\ Live = {}
            /\ Len(freed) = 3 * num_entities
            /\ \A b \in Blocks : freed[b] = 1)

FinalTeardownWitness ==
    /\ pc = "end" /\ stage = "done"
    /\ num_entities = MaxEntities /\ frames >= 1 /\ operations_per_frame >= 1
    /\ alloc = {} /\ Live = {}
    /\ Len(freed) = 3 * MaxEntities
    /\ \A b \in Blocks : freed[b] = 1 /\ destroys[b] >= 3

\* C11 Race under the broken single-thread contract: when every clone runs
\* to completion before the next operation begins, the count of the shared
\* block always equals its live handles, no write loses an update, the block
\* stays allocated while a handle is live and no operation touches freed
\* storage. (With read and write interleaved across the two threads the
\* witness state is reached: an update was lost and the block has been freed
\* while a handle to it is still live.)
RunToCompletionSafe ==
    mode = "run_to_completion" =>
        /\ ~lost /\ ~ub
        /\ \A b \in Blocks :
               /\ ref_count[b] = LiveCount(b)
               /\ LiveCount(b) >= 1 => (b \in alloc /\ freed[b] = 0)

LostUpdateWitness ==
    /\ mode = "interleaved"
    /\ lost /\ ~ub
    /\ op.kind = "drop"
    /\ \E h \in Live : handles[h] \notin alloc /\ freed[handles[h]] = 1

RunPcs == {"run", "run_deref", "run_drop"}
Stored == {entities[i] : i \in 1..Len(entities)}

\* C12 Run visit protocol and count neutrality: in every operation slot the
\* stored handles are visited in collection order, and for each the clone,
\* the dereference of the clone and the destroy of the clone complete before
\* the next is visited; run allocates and deallocates nothing, leaves the
\* collection alone, and between visits and when it returns every block's
\* count is what it was when run began (one higher, for the visited block
\* only, while its clone is alive).
RunVisitProtocol ==
    /\ [](pc \in RunPcs =>
            /\ Len(run_start) = Len(ref_count)
            /\ pc = "run" =>
                   /\ cloned_rc = Null /\ Live = Stored
                   /\ \A b \in alloc : ref_count[b] = run_start[b]
            /\ pc # "run" =>
                   /\ idx < Len(entities)
                   /\ cloned_rc \in Live \ Stored
                   /\ Live = Stored \cup {cloned_rc}
                   /\ handles[cloned_rc] = BlockOf(idx + 1)
                   /\ \A b \in alloc :
                          ref_count[b] = run_start[b]
                                           + (IF b = BlockOf(idx + 1) THEN 1 ELSE 0)
            /\ pc = "run_drop" =>
                   op = [kind |-> "deref", h |-> cloned_rc, res |-> Entity(idx)])
    /\ [][(pc \in RunPcs) =>
            /\ alloc' = alloc /\ freed' = freed /\ entities' = entities
            /\ (pc = "run" /\ pc' = "run_deref") =>
                   (op'.kind = "clone" /\ op'.h = entities[idx + 1] /\ idx' = idx)
            /\ pc = "run_deref" =>
                   (pc' = "run_drop" /\ op'.kind = "deref" /\ op'.h = cloned_rc
                    /\ idx' = idx)
            /\ pc = "run_drop" =>
                   (pc' = "run" /\ op'.kind = "drop" /\ op'.h = cloned_rc
                    /\ idx' = idx + 1)
            /\ (pc = "run" /\ pc' = "run" /\ idx' # idx) =>
                   (idx = Len(entities) /\ idx' = 0 /\ slot' = slot + 1)
            /\ (pc = "run" /\ pc' \notin RunPcs) =>
                   (frame = frames /\ \A b \in alloc : ref_count[b] = run_start[b])
      ]_vars

RunVisitProtocolWitness ==
    /\ stage = "CustomRc" /\ pc = "run_drop"
    /\ num_entities = MaxEntities
    /\ frame = 1 /\ slot = 1 /\ idx = 1
    /\ ref_count[BlockOf(2)] = run_start[BlockOf(2)] + 1
    /\ ref_count[BlockOf(1)] = run_start[BlockOf(1)]

StageIdx == CASE stage = "warmup" -> 1
              [] stage = "StdRc" -> 2
              [] stage = "CustomRc" -> 3
              [] stage = "done" -> 4
              [] OTHER -> 0
\* position of pc in a pass: setup, run, then report and teardown (the
\* warm-up block drops its game before its completion line is printed)
PhaseRank == CASE pc = "begin" -> 0
               [] pc \in {"setup", "setup_clone", "setup_push", "setup_drop"} -> 1
               [] pc \in RunPcs -> 2
               [] pc = "report" -> IF stage = "warmup" THEN 4 ELSE 3
               [] pc = "teardown" -> IF stage = "warmup" THEN 3 ELSE 4
               [] OTHER -> 5
RECURSIVE Headlines(_)
\* the console lines without the progress notifications
Headlines(log) ==
    IF log = <<>> THEN <<>>
    ELSE IF Head(log)[1] = "Completed frame" THEN Headlines(Tail(log))
    ELSE <<Head(log)>> \o Headlines(Tail(log))
ExpectedHeadlines ==
    << <<"Warming up">>, <<"Warm-up completed">>,
       <<"Benchmarking", "StdRc">>,
       <<"completed", "StdRc", frames, operations_per_frame>>,
       <<"Benchmarking", "CustomRc">>,
       <<"completed", "CustomRc", frames, operations_per_frame>> >>
IsPrefix(p, q) == Len(p) <= Len(q) /\ SubSeq(q, 1, Len(p)) = p

\* C13 Phase ordering: within a pass the phases setup, run, report follow in
\* that order and none is re-entered; a pass starts only when the previous
\* one has finished, in the order warm-up, StdRc, CustomRc; run starts only
\* with all n handles stored, a report is printed only after run finished
\* all frames, and the opening and completion lines appear once each in that
\* order.
PhaseOrdering ==
    /\ [][\/ (StageIdx' = StageIdx /\ PhaseRank' >= PhaseRank)
          \/ (StageIdx' = StageIdx + 1 /\ PhaseRank = 4 /\ PhaseRank' \in {0, 5})
         ]_vars
    /\ [](/\ pc \in RunPcs => (Len(entities) = num_entities /\ id = num_entities)
          /\ PhaseRank \in {3, 4} => (frame = frames /\ Len(totals) = StageIdx)
          /\ PhaseRank <= 2 => Len(totals) = StageIdx - 1
          /\ IsPrefix(Headlines(out), ExpectedHeadlines)
          /\ Len(Headlines(out)) =
                 2 * (StageIdx - 1)
                 + (IF pc = "begin" \/ pc = "end" THEN 0
                    ELSE IF pc = "teardown" /\ stage # "warmup" THEN 2 ELSE 1)
          /\ pc = "end" => Headlines(out) = ExpectedHeadlines)

PhaseOrderingWitness ==
    /\ pc = "end" /\ stage = "done"
    /\ num_entities = MaxEntities /\ frames = MaxFrames
    /\ operations_per_frame = MaxOps
    /\ Headlines(out) = ExpectedHeadlines
    /\ Len(out) > Len(ExpectedHeadlines)

RECURSIVE ProgressFrames(_)
\* the frame indices of the progress notifications, in order of emission
ProgressFrames(log) ==
    IF log = <<>> THEN <<>>
    ELSE IF Head(log)[1] = "Completed frame"
           THEN <<Head(log)[2]>> \o ProgressFrames(Tail(log))
           ELSE ProgressFrames(Tail(log))

\* C14 Progress notifications: with F frames and interval max(floor(F/10), 1),
\* the notifications emitted once `frame` frames are complete are exactly
\* those of the frame indices below `frame` that are multiples of the
\* interval, in increasing order, each naming F; so frame 0 is notified as
\* soon as one frame is complete, every frame is notified when F < 10, and
\* nothing is notified between multiples.
ProgressNotifications ==
    LET interval == IF frames \div 10 >= 1 THEN frames \div 10 ELSE 1
        n == (frame + interval - 1) \div interval
        notified == ProgressFrames(out) IN
    /\ notified = [k \in 1..n |-> (k - 1) * interval]
    /\ \A i \in 1..Len(out) :
           out[i][1] = "Completed frame" => out[i][3] = frames
    /\ frame >= 1 => notified[1] = 0
    /\ frames < 10 => Len(notified) = frame

ProgressNotificationsWitness ==
    /\ pc = "end" /\ frames >= 20
    /\ frame = frames
    /\ Len(ProgressFrames(out)) >= 10 /\ Len(ProgressFrames(out)) < frames
    /\ ProgressFrames(out)[2] = 2

\* C17 Progress interval is never zero: for every frame count the divisor
\* max(floor(F/10), 1) is at least 1, and is 1 when F < 10; with F = 0 run
\* performs no clone and no destroy and emits no progress notification.
ProgressIntervalPositive ==
    /\ Max(frames \div 10, 1) >= 1
    /\ frames < 10 => Max(frames \div 10, 1) = 1
    /\ frames >= 10 => Max(frames \div 10, 1) = frames \div 10
    /\ frames = 0 =>
           /\ run_clones = 0 /\ run_drops = 0
           /\ pc \notin {"run_deref", "run_drop"}
           /\ ProgressFrames(out) = <<>>
           /\ \A i \in 1..Len(totals) : totals[i][2] = 0 /\ totals[i][3] = 0
           /\ \A b \in Blocks : clones[b] <= 1

ProgressIntervalPositiveWitness ==
    /\ frames = 0 /\ num_entities >= 1 /\ operations_per_frame >= 1
    /\ pc = "end"
    /\ totals = << <<"CustomRc", 0, 0>> >>
    /\ ProgressFrames(out) = <<>>

\* C15 Termination: for all entity, frame and operation counts, 0 included,
\* the loop counters stay within their fixed iteration counts, every state
\* before the end of main has a step to take (nothing blocks or waits),
\* every pass that begins reaches its report step, and main ends.
Termination ==
    /\ [](/\ id <= num_entities /\ Len(entities) <= num_entities
          /\ frame <= frames /\ slot <= operations_per_frame
          /\ idx <= Len(entities)
          /\ run_clones <= Total /\ run_drops <= Total
          /\ pc # "end" => ENABLED GameNext)
    /\ \A s \in {"warmup", "StdRc", "CustomRc"} :
           (stage = s /\ pc = "begin") ~> (stage = s /\ pc = "report")
    /\ <>[](pc = "end")

TerminationWitness ==
    /\ pc = "end" /\ stage = "done" /\ Len(totals) = 3
    /\ num_entities = MaxEntities /\ frames = 0 /\ operations_per_frame = MaxOps
    /\ freed = [b \in 1..(3 * MaxEntities) |-> 1]

\* C16 Bounded counts during the workload: throughout setup and run over
\* CustomRc every allocated block's count is its resting value 1 or 1 more,
\* at most one block is above 1, and the count equals the live handles; no
\* step raises a count by more than 1 or beyond 2 (far below the word size),
\* and no step decrements a count that is 0.
BoundedCounts ==
    /\ []((stage = "CustomRc" /\ PhaseRank \in {1, 2}) =>
            /\ \A b \in alloc : ref_count[b] \in {1, 2}
            /\ \A b \in alloc : ref_count[b] = LiveCount(b)
            /\ Cardinality({b \in alloc : ref_count[b] > 1}) <= 1)
    /\ [][(stage = "CustomRc" /\ PhaseRank \in {1, 2}) =>
            \A b \in Blocks :
                /\ ref_count'[b] > ref_count[b] =>
                       (ref_count'[b] = ref_count[b] + 1 /\ ref_count'[b] <= 2)
                /\ ref_count'[b] < ref_count[b] =>
                       (ref_count[b] >= 1 /\ ref_count'[b] = ref_count[b] - 1)
      ]_vars

BoundedCountsWitness ==
    /\ stage = "CustomRc" /\ pc = "run_deref"
    /\ num_entities = MaxEntities /\ idx = 1
    /\ ref_count[BlockOf(1)] = 1 /\ ref_count[BlockOf(2)] = 2
    /\ run_clones >= 2

====
